---- MODULE Spec2Model ----
(***************************************************************************)
(* Model of src/performance/amdahl_and_gunther.cpp: the sweep of main()    *)
(* (lines 125-138), the driver run_with (lines 64-123) and its worker      *)
(* threads (lines 87-118).                                                 *)
(*                                                                         *)
(* uint64_t and double values are kept at their real widths (64 bits, 53   *)
(* bit significand).  A uint64_t is a sequence of 16-bit limbs, least      *)
(* significant first, without leading zero limbs (zero is << >>).          *)
(***************************************************************************)
EXTENDS Integers, Sequences, FiniteSets, TLC

\* ------------------------------------------------------------- bounds
MaxThreads == 3
MaxRounds == 2
MaxOps == 2
MaxLock == 2
MaxTotal == 5
SBits == 2
MaxCurveN == 4
MaxCoef == 2
MaxJitter == 1
MaxBurst == 9

\* ------------------------------------------------- program constants
WordBits == 64
MantBits == 53
PackedSlots == 8

LimbBits == 16
LimbBase == 2 ^ LimbBits
SDen == 2 ^ SBits

\* ------------------------------------------------ multi-limb naturals
RECURSIVE Norm(_)
Norm(x) ==
  IF x = << >> THEN << >>
  ELSE IF x[Len(x)] = 0 THEN Norm(SubSeq(x, 1, Len(x) - 1))
  ELSE x

RECURSIVE BigOf(_)
BigOf(n) ==
  IF n = 0 THEN << >> ELSE << n % LimbBase >> \o BigOf(n \div LimbBase)

Limb(x, p) == IF p <= Len(x) THEN x[p] ELSE 0

RECURSIVE AddC(_, _, _)
AddC(x, y, c) ==
  IF x = << >> /\ y = << >>
  THEN (IF c = 0 THEN << >> ELSE << c >>)
  ELSE LET t == Limb(x, 1) + Limb(y, 1) + c
       IN  << t % LimbBase >>
             \o AddC(IF x = << >> THEN x ELSE Tail(x),
                     IF y = << >> THEN y ELSE Tail(y), t \div LimbBase)

BigAdd(x, y) == Norm(AddC(x, y, 0))

RECURSIVE MulC(_, _, _)
MulC(x, f, c) ==
  IF x = << >> THEN BigOf(c)
  ELSE LET t == Head(x) * f + c
       IN  << t % LimbBase >> \o MulC(Tail(x), f, t \div LimbBase)

BigMulSmall(x, f) == Norm(MulC(x, f, 0))

\* <<quotient limbs, remainder>> of x divided by the small number d
RECURSIVE DivRem(_, _)
DivRem(x, d) ==
  IF x = << >> THEN << << >>, 0 >>
  ELSE LET hi == DivRem(Tail(x), d)
           t  == hi[2] * LimbBase + Head(x)
       IN  << << t \div d >> \o hi[1], t % d >>

BigDivSmall(x, d) == Norm(DivRem(x, d)[1])
BigModSmall(x, d) == DivRem(x, d)[2]

RECURSIVE LimbBitLen(_)
LimbBitLen(n) == IF n = 0 THEN 0 ELSE 1 + LimbBitLen(n \div 2)

BitLen(x) ==
  IF x = << >> THEN 0 ELSE LimbBits * (Len(x) - 1) + LimbBitLen(x[Len(x)])

\* x <= y, both without leading zero limbs
RECURSIVE BigLE(_, _)
BigLE(x, y) ==
  IF Len(x) # Len(y) THEN Len(x) < Len(y)
  ELSE IF x = << >> THEN TRUE
  ELSE IF x[Len(x)] # y[Len(y)] THEN x[Len(x)] < y[Len(y)]
  ELSE BigLE(SubSeq(x, 1, Len(x) - 1), SubSeq(y, 1, Len(y) - 1))

WordLimbs == WordBits \div LimbBits
MaxWord == SubSeq([p \in 1..WordLimbs |-> LimbBase - 1], 1, WordLimbs)

\* uint64_t subtraction x - y: the difference modulo 2^64
RECURSIVE SubB(_, _, _, _)
SubB(x, y, p, b) ==
  IF p > WordLimbs THEN << >>
  ELSE LET t == Limb(x, p) - Limb(y, p) - b
       IN  IF t < 0 THEN << t + LimbBase >> \o SubB(x, y, p + 1, 1)
           ELSE << t >> \o SubB(x, y, p + 1, 0)

WordSub(x, y) == Norm(SubB(x, y, 1, 0))

\* ------------------------------------------------------------ double
\* The nearest double of a non-negative value x (ties to even): x keeps its
\* MantBits leading bits.  The bits rounded off lie in the lowest limb.
RoundToDouble(x) ==
  IF BitLen(x) <= MantBits THEN x
  ELSE LET p    == BitLen(x) - MantBits
           u    == 2 ^ p
           low  == x[1] % u
           down == Norm([x EXCEPT ![1] = x[1] - low])
           odd  == (x[1] \div u) % 2 = 1
           up   == 2 * low > u \/ (2 * low = u /\ odd)
       IN  IF up THEN BigAdd(down, BigOf(u)) ELSE down

\* static_cast<uint64_t>(d) of a double d >= 0: exact when d < 2^64; the
\* conversion of a larger value is undefined, and builds produce 0 or 2^64-1.
CastToWord(x) == IF BitLen(x) <= WordBits THEN {x} ELSE {<< >>, MaxWord}

\* static_cast<uint64_t>(total_iters * s) for s = sn / SDen: total_iters is
\* converted to double, the product is rounded to double, the cast truncates.
SerialIters(total, sn) ==
  CastToWord(BigDivSmall(RoundToDouble(BigMulSmall(RoundToDouble(total), sn)), SDen))

\* the slice rounded up instead of down
PerWorkerCeil(parallel, n) == BigDivSmall(BigAdd(parallel, BigOf(n - 1)), n)
\* line 83: uint64_t per = parallel_iters / N
PerWorker(parallel, n) == BigDivSmall(parallel, n)

\* 2^e as limbs
BigPow2(e) ==
  LET top == e \div LimbBits + 1
      f   == [p \in 1..top |-> IF p = top THEN 2 ^ (e % LimbBits) ELSE 0]
  IN  SubSeq(f, 1, top)

\* ------------------------------------------------- double arithmetic
\* x * 2^c
ShiftLeft(x, c) ==
  LET pad == [p \in 1..(c \div LimbBits) |-> 0]
      b   == c % LimbBits
      lo  == b \div 2
  IN  Norm(SubSeq(pad, 1, c \div LimbBits)
             \o BigMulSmall(BigMulSmall(x, 2 ^ lo), 2 ^ (b - lo)))

\* floor(x / 2^c)
ShiftRight(x, c) ==
  IF c \div LimbBits >= Len(x) THEN << >>
  ELSE BigDivSmall(SubSeq(x, c \div LimbBits + 1, Len(x)), 2 ^ (c % LimbBits))

\* x - y for x >= y
RECURSIVE SubC(_, _, _)
SubC(x, y, b) ==
  IF x = << >> THEN << >>
  ELSE LET t == Head(x) - Limb(y, 1) - b
       IN  << IF t < 0 THEN t + LimbBase ELSE t >>
             \o SubC(Tail(x), IF y = << >> THEN y ELSE Tail(y),
                     IF t < 0 THEN 1 ELSE 0)

BigSub(x, y) == Norm(SubC(x, y, 0))

HalfLimb == 2 ^ (LimbBits \div 2)

RECURSIVE BigMul(_, _)
BigMul(x, y) ==
  IF y = << >> THEN << >>
  ELSE LET lo == BigMulSmall(x, Head(y) % HalfLimb)
           hi == ShiftLeft(BigMulSmall(x, Head(y) \div HalfLimb), LimbBits \div 2)
       IN  BigAdd(BigAdd(lo, hi), ShiftLeft(BigMul(x, Tail(y)), LimbBits))

\* bit j of x, bit 0 the lowest
Bit(x, j) == (Limb(x, j \div LimbBits + 1) \div 2 ^ (j % LimbBits)) % 2

\* digit j of x in base HalfLimb, digit 0 the lowest
Digit(x, j) ==
  IF j % 2 = 0 THEN Limb(x, j \div 2 + 1) % HalfLimb
  ELSE Limb(x, j \div 2 + 1) \div HalfLimb

\* a value below 2^31 as a number
ToInt(x) == Limb(x, 1) + LimbBase * Limb(x, 2)

\* long division of a by b > 0 over the digits j-1 .. 0 of a in base
\* HalfLimb, from qr = <<quotient, remainder>> of the digits above them.
\* bt holds the leading bits of b, b \div 2^sh, fewer than LimbBits of them;
\* the leading bits of the remainder divided by bt + 1 give the next digit
\* of the quotient or one less.
RECURSIVE DivDigits(_, _, _, _, _, _)
DivDigits(a, b, sh, bt, j, qr) ==
  IF j = 0 THEN qr
  ELSE LET r2  == BigAdd(BigMulSmall(qr[2], HalfLimb), BigOf(Digit(a, j - 1)))
           est == IF sh = 0 THEN ToInt(r2) \div bt
                  ELSE ToInt(ShiftRight(r2, sh)) \div (bt + 1)
           d   == IF Len(r2) < Len(b) THEN 0
                  ELSE IF sh > 0 /\ BigLE(BigMulSmall(b, est + 1), r2)
                  THEN est + 1 ELSE est
           q2  == BigAdd(BigMulSmall(qr[1], HalfLimb), BigOf(d))
       IN  IF d = 0 THEN DivDigits(a, b, sh, bt, j - 1, << q2, r2 >>)
           ELSE DivDigits(a, b, sh, bt, j - 1,
                          << q2, BigSub(r2, BigMulSmall(b, d)) >>)

\* <<floor(a / b), a mod b>> for b > 0
BigDivRem(a, b) ==
  LET sh == IF BitLen(b) >= LimbBits THEN BitLen(b) - LimbBits + 1 ELSE 0
  IN  DivDigits(a, b, sh, ToInt(ShiftRight(b, sh)), 2 * Len(a),
                << << >>, << >> >>)

RECURSIVE LowZeros(_)
LowZeros(n) == IF n % 2 = 1 THEN 0 ELSE 1 + LowZeros(n \div 2)

RECURSIVE TrailingZeros(_)
TrailingZeros(x) ==
  IF Head(x) = 0 THEN LimbBits + TrailingZeros(Tail(x)) ELSE LowZeros(Head(x))

\* A finite double d >= 0 is [m, e] with d = m * 2^e and m odd, zero being
\* [<< >>, 0]; the exponents of this program stay far inside the range of
\* a double, so neither overflow nor subnormals arise.
Canon(mant, e) ==
  IF mant = << >> THEN [m |-> << >>, e |-> 0]
  ELSE [m |-> ShiftRight(mant, TrailingZeros(mant)), e |-> e + TrailingZeros(mant)]

\* the double nearest to mant * 2^e, ties to even; sticky says that the
\* exact value lies strictly above mant * 2^e (and below (mant + 1) * 2^e)
Nearest(mant, e, sticky) ==
  LET p == BitLen(mant) - MantBits
  IN  IF p <= 0 THEN Canon(mant, e)
      ELSE LET q    == ShiftRight(mant, p)
               low  == BigSub(mant, ShiftLeft(q, p))
               half == BigPow2(p - 1)
               up   == IF low = half THEN sticky \/ Bit(q, 0) = 1
                       ELSE BigLE(half, low)
           IN  Canon(IF up THEN BigAdd(q, << 1 >>) ELSE q, e + p)

FromInt(n) == Canon(BigOf(n), 0)
\* the double n / 2^bits
Dyadic(n, bits) == Canon(BigOf(n), 0 - bits)

MinExp(x, y) == IF x.e < y.e THEN x.e ELSE y.e
Aligned(x, y) == ShiftLeft(x.m, x.e - MinExp(x, y))

FAdd(x, y) == Nearest(BigAdd(Aligned(x, y), Aligned(y, x)), MinExp(x, y), FALSE)
\* x - y for x >= y
FSub(x, y) == Nearest(BigSub(Aligned(x, y), Aligned(y, x)), MinExp(x, y), FALSE)
FMul(x, y) == Nearest(BigMul(x.m, y.m), x.e + y.e, FALSE)
\* x / y for y > 0: the quotient of the significands to MantBits + 2 bits
\* or more, and whether a remainder is left
FDiv(x, y) ==
  LET want == MantBits + 2 + BitLen(y.m) - BitLen(x.m)
      sh   == IF want > 0 THEN want ELSE 0
      qr   == BigDivRem(ShiftLeft(x.m, sh), y.m)
  IN  Nearest(qr[1], x.e - y.e - sh, qr[2] # << >>)

FLE(x, y) == BigLE(Aligned(x, y), Aligned(y, x))

\* the parallel part multiplied by n instead of divided
amdahlTimes(sv, n) ==
  FDiv(FromInt(1), FAdd(sv, FMul(FSub(FromInt(1), sv), FromInt(n))))

\* the serial part divided by n instead of the parallel part
amdahlSwapped(sv, n) ==
  FDiv(FromInt(1), FAdd(FDiv(sv, FromInt(n)), FSub(FromInt(1), sv)))

\* lines 23-25
amdahl(sv, n) ==
  FDiv(FromInt(1), FAdd(sv, FDiv(FSub(FromInt(1), sv), FromInt(n))))

\* the contention term taken over n threads instead of n - 1
guntherAllPeers(a, b, n) ==
  FDiv(FromInt(n),
       FAdd(FAdd(FromInt(1), FMul(a, FromInt(n))),
            FMul(FMul(b, FromInt(n)), FromInt(n - 1))))

\* lines 26-29
gunther(a, b, n) ==
  FDiv(FromInt(n),
       FAdd(FAdd(FromInt(1), FMul(a, FromInt(n - 1))),
            FMul(FMul(b, FromInt(n)), FromInt(n - 1))))

\* ------------------------------------------------------------- state
VARIABLES
  s, alpha, beta, total_iters, maxN, coh_rounds, coh_ops, lock_iters,
                   \* lines 48-55; s, alpha and beta in units of 1 / SDen
  clock_noise,     \* how far a reading of the clock may run ahead
  mpc,             \* position of the main thread
  loopN,           \* N of the sweep loop, line 128
  t1, tN,          \* lines 126, 129
  records,         \* the rows written by lines 134-137, in order
  calls,           \* history: the invocations of run_with, in order
  ret_to,          \* the call site run_with returns to
  N,               \* run_with's parameter
  serial_iters, parallel_iters, t0, sink1, per, sink2,
  i,               \* launch loop, line 86
  joined,          \* threads joined so far by line 120
  hot, packed, m, sync_point,
  wpc, r, k, tok,  \* each worker: position, round, loop index, barrier token
  ran, acq, rel,   \* history: iterations run, mutex acquisitions and releases
  arr, inc,        \* history: barrier arrivals and fetch_adds of each worker
  users,           \* history: the threads that have read or written the
                   \* counters, the mutex or the barrier (0 the main thread)
  now              \* the clock read by lines 69 and 19

params == << s, alpha, beta, total_iters, maxN, coh_rounds, coh_ops, lock_iters,
            clock_noise >>
sweep  == << loopN, t1, tN, records, ret_to >>
frame  == << N, serial_iters, parallel_iters, t0, sink1, per, sink2, i, joined >>
shared == << hot, packed, m, sync_point >>
wstate == << wpc, r, k, tok, ran, acq, rel, arr, inc, users >>
vars   == << params, mpc, sweep, calls, frame, shared, wstate, now >>

\* the threads of the largest invocation
Workers == 1..(IF MaxThreads > MaxCurveN THEN MaxThreads ELSE MaxCurveN)
Zero == << >>

\* busy_work(iters, sink) runs iters iterations on locals and stores the
\* accumulator; the accumulator is a function of iters and is kept as iters.
busy_work(iters) == iters

InitWith(totals, fractions, threads, rounds, ops, locks) ==
  /\ total_iters \in totals
  /\ s \in fractions
  /\ maxN \in threads
  /\ coh_rounds \in rounds
  /\ coh_ops \in ops
  /\ lock_iters \in locks
  /\ mpc = "base"
  /\ loopN = 0 /\ t1 = 0 /\ tN = 0
  /\ records = << >> /\ calls = << >> /\ ret_to = "base"
  /\ N = 0 /\ serial_iters = Zero /\ parallel_iters = Zero /\ t0 = 0
  /\ sink1 = Zero /\ per = Zero /\ sink2 = Zero /\ i = 0 /\ joined = 0
  /\ hot = 0 /\ packed = [c \in 0..(PackedSlots - 1) |-> 0] /\ m = 0
  /\ sync_point = [parties |-> 0, count |-> 0, phase |-> 0]
  /\ wpc = [w \in Workers |-> "none"]
  /\ r = [w \in Workers |-> 0] /\ k = [w \in Workers |-> 0]
  /\ tok = [w \in Workers |-> 0]
  /\ ran = [w \in Workers |-> Zero]
  /\ acq = [w \in Workers |-> 0] /\ rel = [w \in Workers |-> 0]
  /\ arr = [w \in Workers |-> 0] /\ inc = [w \in Workers |-> 0]
  /\ users = {}
  /\ now = 0

\* the sweep under every setting of the injectors, for one amount of work
Init ==
  /\ InitWith({BigOf(MaxTotal)}, {0, 1}, 0..MaxThreads,
              0..MaxRounds, 0..MaxOps, 0..MaxLock)
  /\ alpha = 1 /\ beta = 1 /\ clock_noise = 0

\* total_iters: small values, the first values a double cannot hold
\* (2^53 and above) and the largest values of a uint64_t
Totals ==
  {BigOf(n) : n \in 0..MaxTotal}
    \cup {BigAdd(BigPow2(MantBits), BigOf(n)) : n \in 0..MaxTotal}
    \cup {WordSub(MaxWord, BigOf(n)) : n \in 0..MaxTotal}

\* the sweep under every amount of work and every serial fraction n / SDen
\* of [0, 1], with one round, one operation and one lock per worker
InitSplit ==
  /\ InitWith(Totals, 0..SDen, 1..MaxThreads, {1}, {1}, {1})
  /\ alpha = 1 /\ beta = 1 /\ clock_noise = 0

\* ---------------------------------------------------- the main thread
Tick == now' = now + 1

\* the serial slice run after the workers are launched
DriverNextOverlap(pc) ==
  CASE pc = "split"  -> "timer"
    [] pc = "timer"  -> "setup"
    [] pc = "setup"  -> "spawn"
    [] pc = "spawn"  -> "serial"
    [] pc = "serial" -> "join"
    [] pc = "join"   -> "ret"

\* the order of run_with's straight-line steps, lines 65-120
DriverNext(pc) ==
  CASE pc = "split"  -> "timer"
    [] pc = "timer"  -> "serial"
    [] pc = "serial" -> "setup"
    [] pc = "setup"  -> "spawn"
    [] pc = "spawn"  -> "join"
    [] pc = "join"   -> "ret"

\* line 126: double t1 = run_with(1)
Baseline ==
  /\ mpc = "base"
  /\ N' = 1 /\ ret_to' = "base" /\ mpc' = "split"
  /\ Tick
  /\ UNCHANGED << params, loopN, t1, tN, records, calls, shared, wstate,
                  serial_iters, parallel_iters, t0, sink1, per, sink2, i, joined >>

\* lines 65-66
Split ==
  /\ mpc = "split"
  /\ \E ser \in SerialIters(total_iters, s) :
       /\ serial_iters' = ser
       /\ parallel_iters' = WordSub(total_iters, ser)
       /\ calls' = Append(calls, [N |-> N, serial |-> ser, time |-> 0])
  /\ mpc' = DriverNext("split")
  /\ Tick
  /\ UNCHANGED << params, sweep, shared, wstate,
                  N, t0, sink1, per, sink2, i, joined >>

\* line 69
Timer ==
  /\ mpc = "timer"
  /\ t0' = now
  /\ mpc' = DriverNext("timer")
  /\ Tick
  /\ UNCHANGED << params, sweep, calls, shared, wstate,
                  N, serial_iters, parallel_iters, sink1, per, sink2, i, joined >>

\* line 71
Serial ==
  /\ mpc = "serial"
  /\ sink1' = busy_work(serial_iters)
  /\ mpc' = DriverNext("serial")
  /\ Tick
  /\ UNCHANGED << params, sweep, calls, shared, wstate,
                  N, serial_iters, parallel_iters, t0, per, sink2, i, joined >>

\* a barrier that expects one arrival more than there are workers
PartiesOneMore(n) == n + 1
\* line 80: std::barrier sync_point(N)
Parties(n) == n

\* shared state that outlives the invocation (static storage)
StaleShared(n) ==
  [hot    |-> hot,
   packed |-> packed,
   m      |-> m,
   sync_point |-> [sync_point EXCEPT !.parties = n]]

\* lines 75-80: mutex m, CacheLine64 hot (stored 0), PackedLine packed
\* (members initialised to 0) and the barrier are locals of the invocation
FreshShared(n) ==
  [hot    |-> 0,
   packed |-> [c \in 0..(PackedSlots - 1) |-> 0],
   m      |-> 0,
   sync_point |-> [parties |-> Parties(n), count |-> 0, phase |-> 0]]

\* lines 74-84: the locals of one invocation, constructed anew
Setup ==
  /\ mpc = "setup"
  /\ wpc' = [w \in Workers |-> "none"]
  /\ r' = [w \in Workers |-> 0] /\ k' = [w \in Workers |-> 0]
  /\ tok' = [w \in Workers |-> 0]
  /\ ran' = [w \in Workers |-> Zero]
  /\ acq' = [w \in Workers |-> 0] /\ rel' = [w \in Workers |-> 0]
  /\ arr' = [w \in Workers |-> 0] /\ inc' = [w \in Workers |-> 0]
  /\ users' = {0}
  /\ m' = FreshShared(N).m
  /\ hot' = FreshShared(N).hot
  /\ packed' = FreshShared(N).packed
  /\ sync_point' = FreshShared(N).sync_point
  /\ per' = PerWorker(parallel_iters, N)
  /\ sink2' = Zero
  /\ i' = 0 /\ joined' = 0
  /\ mpc' = DriverNext("setup")
  /\ Tick
  /\ UNCHANGED << params, sweep, calls,
                  N, serial_iters, parallel_iters, t0, sink1 >>

\* the lock loop entered straight after the compute slice
AfterWorkLockFirst == IF lock_iters > 0 THEN "lock" ELSE "done"
\* a round run before its loop condition is tested (do ... while)
AfterWorkOneRound == "arrive"
\* the first position of a worker, lines 89-114
AfterRounds == IF lock_iters > 0 THEN "lock" ELSE "done"
AfterWork == IF coh_rounds > 0 THEN "arrive" ELSE AfterRounds

\* lines 86-87: ts.emplace_back(...) starts thread i
Spawn ==
  /\ mpc = "spawn"
  /\ i < N
  /\ wpc' = [wpc EXCEPT ![i + 1] = "work"]
  /\ i' = i + 1
  /\ mpc' = IF i + 1 < N THEN "spawn" ELSE DriverNext("spawn")
  /\ Tick
  /\ UNCHANGED << params, sweep, calls, shared, r, k, tok, ran, acq, rel,
                  arr, inc, users,
                  N, serial_iters, parallel_iters, t0, sink1, per, sink2, joined >>

\* a join that returns once the thread has finished its compute slice
JoinReadyComputed(t) == wpc[t] \notin {"none", "work"}
\* a join that does not wait for the thread (a detached thread)
JoinReadyDetached(t) == TRUE
\* t.join() returns once thread t has finished
JoinReady(t) == wpc[t] = "done"

\* line 120
Join ==
  /\ mpc = "join"
  /\ joined < N
  /\ JoinReady(joined + 1)
  /\ joined' = joined + 1
  /\ mpc' = IF joined + 1 < N THEN "join" ELSE DriverNext("join")
  /\ Tick
  /\ UNCHANGED << params, sweep, calls, shared, wstate,
                  N, serial_iters, parallel_iters, t0, sink1, per, sink2, i >>

\* lines 18-20: the readings the clock may give, less start
seconds_since(start) == {now + d - start : d \in 0..clock_noise}

\* line 122, and the assignment at the call site (line 126 or 129)
Return ==
  /\ mpc = "ret"
  /\ \E elapsed \in seconds_since(t0) :
       /\ calls' = [calls EXCEPT ![Len(calls)].time = elapsed]
       /\ IF ret_to = "base"
          THEN /\ t1' = elapsed
               /\ loopN' = 1
               /\ mpc' = "loop"
               /\ tN' = tN
          ELSE /\ tN' = elapsed
               /\ mpc' = "emit"
               /\ UNCHANGED << t1, loopN >>
  /\ Tick
  /\ UNCHANGED << params, records, ret_to, frame, shared, wstate >>

\* the cached baseline used for the second row instead of the first
CachedSecond(n) == n = 2
\* the sweep stopping one short of maxN
LoopCondShort(n) == n < maxN
\* line 128: N <= maxN
LoopCond(n) == n <= maxN

\* the sweep running the driver again for N = 1
CachedNever(n) == FALSE
\* line 129: (N==1) ? t1 : run_with(N)
Cached(n) == n = 1

\* lines 128-129
Loop ==
  /\ mpc = "loop"
  /\ IF ~LoopCond(loopN)
     THEN /\ mpc' = "exit"
          /\ UNCHANGED << tN, N, ret_to >>
     ELSE IF Cached(loopN)
     THEN /\ tN' = t1
          /\ mpc' = "emit"
          /\ UNCHANGED << N, ret_to >>
     ELSE /\ N' = loopN /\ ret_to' = "loop" /\ mpc' = "split"
          /\ tN' = tN
  /\ Tick
  /\ UNCHANGED << params, loopN, t1, records, calls, shared, wstate,
                  serial_iters, parallel_iters, t0, sink1, per, sink2, i, joined >>

\* line 130: double meas = t1 / tN
Measured(base, cur) == FDiv(FromInt(base), FromInt(cur))

\* lines 130-137: the row printed for n threads
Row(n) ==
  [N       |-> n,
   t1      |-> t1,
   tN      |-> tN,
   meas    |-> Measured(t1, tN),
   amdahl  |-> amdahl(Dyadic(s, SBits), n),
   gunther |-> gunther(Dyadic(alpha, SBits), Dyadic(beta, SBits), n)]

\* lines 130-137, and ++N
Emit ==
  /\ mpc = "emit"
  /\ records' = Append(records, Row(loopN))
  /\ loopN' = loopN + 1
  /\ mpc' = "loop"
  /\ Tick
  /\ UNCHANGED << params, t1, tN, ret_to, calls, frame, shared, wstate >>

\* the state of the driver (Idle, SerialPhase, ParallelPhase, Joined, Done)
\* at each position of the main thread
DriverState ==
  CASE mpc \in {"split", "timer"}         -> "Idle"
    [] mpc = "serial"                      -> "SerialPhase"
    [] mpc \in {"setup", "spawn", "join"}  -> "ParallelPhase"
    [] mpc = "ret"                         -> "Joined"
    [] OTHER -> IF calls = << >> THEN "Idle" ELSE "Done"

MainStep ==
  \/ Baseline \/ Split \/ Timer \/ Serial \/ Setup
  \/ Spawn \/ Join \/ Return \/ Loop \/ Emit

\* -------------------------------------------------- a worker, lines 87-118
\* line 89: busy_work(per, sink2).  Every worker stores the same accumulator,
\* so the unsynchronised stores to sink2 leave that one value.
Work(w) ==
  /\ wpc[w] = "work"
  /\ ran' = [ran EXCEPT ![w] = per]
  /\ sink2' = busy_work(per)
  /\ r' = [r EXCEPT ![w] = 0]
  /\ wpc' = [wpc EXCEPT ![w] = AfterWork]
  /\ Tick
  /\ UNCHANGED << params, mpc, sweep, calls, shared, k, tok, acq, rel,
                  arr, inc, users,
                  N, serial_iters, parallel_iters, t0, sink1, per, i, joined >>

\* a barrier whose phase completes at every arrival
ArrivedAlone(b) == [b EXCEPT !.phase = b.phase + 1]
\* the barrier after one more arrival: the last of the expected arrivals
\* completes the phase and resets the count
Arrived(b) ==
  IF b.count + 1 = b.parties
  THEN [b EXCEPT !.count = 0, !.phase = b.phase + 1]
  ELSE [b EXCEPT !.count = b.count + 1]

\* line 94, arrive_and_wait(): the arrival
Arrive(w) ==
  /\ wpc[w] = "arrive"
  /\ tok' = [tok EXCEPT ![w] = sync_point.phase]
  /\ sync_point' = Arrived(sync_point)
  /\ wpc' = [wpc EXCEPT ![w] = "wait"]
  /\ arr' = [arr EXCEPT ![w] = @ + 1]
  /\ users' = users \cup {w}
  /\ Tick
  /\ UNCHANGED << params, mpc, sweep, calls, frame, hot, packed, m,
                  r, k, ran, acq, rel, inc >>

\* a wait that returns once any thread has arrived
ReleasedByAny(w) == sync_point.count > 0 \/ sync_point.phase > tok[w]
\* a wait that returns without the phase having completed
ReleasedAtOnce(w) == TRUE
\* the phase worker w arrived in has completed
Released(w) == sync_point.phase > tok[w]

\* the position after the two inner loops of a round, lines 93 and 111
AfterBurst(w) == IF r[w] + 1 < coh_rounds THEN "arrive" ELSE AfterRounds

\* line 94, arrive_and_wait(): the wait; then the loop head of line 95
Wait(w) ==
  /\ wpc[w] = "wait"
  /\ Released(w)
  /\ k' = [k EXCEPT ![w] = 0]
  /\ IF coh_ops > 0
     THEN /\ wpc' = [wpc EXCEPT ![w] = "hot"]
          /\ r' = r
     ELSE /\ wpc' = [wpc EXCEPT ![w] = AfterBurst(w)]
          /\ r' = [r EXCEPT ![w] = r[w] + 1]
  /\ users' = users \cup {w}
  /\ Tick
  /\ UNCHANGED << params, mpc, sweep, calls, frame, shared, tok, ran, acq, rel,
                  arr, inc >>

\* an increment that is not atomic: of two threads incrementing at the same
\* time one overwrites the other
HotRacy(w) ==
  /\ wpc[w] = "hot"
  /\ hot' = IF \E v \in Workers \ {w} : wpc[v] = "hot" THEN hot ELSE hot + 1
  /\ IF k[w] + 1 < coh_ops
     THEN /\ k' = [k EXCEPT ![w] = k[w] + 1]
          /\ wpc' = wpc
     ELSE /\ k' = [k EXCEPT ![w] = 0]
          /\ wpc' = [wpc EXCEPT ![w] = "packed"]
  /\ inc' = [inc EXCEPT ![w] = @ + 1]
  /\ users' = users \cup {w}
  /\ Tick
  /\ UNCHANGED << params, mpc, sweep, calls, frame, packed, m, sync_point,
                  r, tok, ran, acq, rel, arr >>

\* lines 95-97: hot.v.fetch_add(1)
Hot(w) ==
  /\ wpc[w] = "hot"
  /\ hot' = hot + 1
  /\ IF k[w] + 1 < coh_ops
     THEN /\ k' = [k EXCEPT ![w] = k[w] + 1]
          /\ wpc' = wpc
     ELSE /\ k' = [k EXCEPT ![w] = 0]
          /\ wpc' = [wpc EXCEPT ![w] = "packed"]
  /\ inc' = [inc EXCEPT ![w] = @ + 1]
  /\ users' = users \cup {w}
  /\ Tick
  /\ UNCHANGED << params, mpc, sweep, calls, frame, packed, m, sync_point,
                  r, tok, ran, acq, rel, arr >>

\* line 100: switch (k & 7)
PackedSlot(kk) == kk % PackedSlots

\* lines 99-110: packed.a<k&7>.fetch_add(1)
Packed(w) ==
  /\ wpc[w] = "packed"
  /\ packed' = [packed EXCEPT ![PackedSlot(k[w])] = @ + 1]
  /\ IF k[w] + 1 < coh_ops
     THEN /\ k' = [k EXCEPT ![w] = k[w] + 1]
          /\ UNCHANGED << wpc, r >>
     ELSE /\ k' = [k EXCEPT ![w] = 0]
          /\ r' = [r EXCEPT ![w] = r[w] + 1]
          /\ wpc' = [wpc EXCEPT ![w] = AfterBurst(w)]
  /\ inc' = [inc EXCEPT ![w] = @ + 1]
  /\ users' = users \cup {w}
  /\ Tick
  /\ UNCHANGED << params, mpc, sweep, calls, frame, hot, m, sync_point,
                  tok, ran, acq, rel, arr >>

\* a lock that is taken whoever holds it
CanLockAlways(w) == TRUE
\* lock_guard's constructor returns once the mutex is free
CanLock(w) == m = 0

\* line 115: lock_guard<mutex> lg(m)
Lock(w) ==
  /\ wpc[w] = "lock"
  /\ CanLock(w)
  /\ m' = w
  /\ acq' = [acq EXCEPT ![w] = @ + 1]
  /\ wpc' = [wpc EXCEPT ![w] = "unlock"]
  /\ users' = users \cup {w}
  /\ Tick
  /\ UNCHANGED << params, mpc, sweep, calls, frame, hot, packed, sync_point,
                  r, k, tok, ran, rel, arr, inc >>

\* line 117: lg's destructor unlocks; then ++k and the loop head of line 114
Unlock(w) ==
  /\ wpc[w] = "unlock"
  /\ m' = 0
  /\ rel' = [rel EXCEPT ![w] = @ + 1]
  /\ k' = [k EXCEPT ![w] = k[w] + 1]
  /\ wpc' = [wpc EXCEPT ![w] = IF k[w] + 1 < lock_iters THEN "lock" ELSE "done"]
  /\ users' = users \cup {w}
  /\ Tick
  /\ UNCHANGED << params, mpc, sweep, calls, frame, hot, packed, sync_point,
                  r, tok, ran, acq, arr, inc >>

WorkerStep(w) ==
  \/ Work(w) \/ Arrive(w) \/ Wait(w) \/ Hot(w) \/ Packed(w)
  \/ Lock(w) \/ Unlock(w)

Next == MainStep \/ \E w \in Workers : WorkerStep(w)

Spec == Init /\ [][Next]_vars

\* the main thread's steps before a row is printed
Computing ==
  \/ Baseline \/ Split \/ Timer \/ Serial \/ Setup
  \/ Spawn \/ Join \/ Return \/ Loop
\* what the step Emit does to the position of the main thread
Printing == mpc = "emit" /\ mpc' = "loop"

\* every thread that can run is eventually scheduled
Fairness ==
  /\ WF_vars(Computing) /\ WF_mpc(Printing)
  /\ \A w \in Workers : WF_vars(WorkerStep(w))
\* the whole sweep to MaxThreads (or none), every number of rounds, and the
\* operation and lock counts at 0 and at their largest
InitFair ==
  /\ InitWith({BigOf(MaxTotal)}, {1}, {0, MaxThreads},
              0..MaxRounds, {0, MaxOps}, {0, MaxLock})
  /\ alpha = 1 /\ beta = 1 /\ clock_noise = 0

FairSpec == InitFair /\ [][Next]_vars /\ Fairness

SplitSpec == InitSplit /\ [][Next]_vars

\* the sweep to every maxN under every s, alpha and beta with the injectors
\* off; and the sweep to one and two threads under a clock that jitters
InitCurve ==
  \/ /\ InitWith({BigOf(MaxTotal)}, 0..SDen, 1..MaxCurveN, {0}, {0}, {0})
     /\ alpha \in 0..MaxCoef /\ beta \in 0..MaxCoef /\ clock_noise = 0
  \/ /\ InitWith({BigOf(MaxTotal)}, {0}, {1, 2}, {1}, {1}, {1})
     /\ alpha = 0 /\ beta = 0 /\ clock_noise = MaxJitter

CurveSpec == InitCurve /\ [][Next]_vars

\* the sweep to MaxThreads under every setting of the injectors, all of the
\* work parallel
InitWorkers ==
  /\ InitWith({BigOf(MaxTotal)}, {0}, {MaxThreads},
              0..MaxRounds, 0..MaxOps, 0..MaxLock)
  /\ alpha = 1 /\ beta = 1 /\ clock_noise = 0

WorkerSpec == InitWorkers /\ [][Next]_vars

\* one and two threads, one round of up to MaxBurst operations on each
\* counter line, so that k & 7 wraps around
InitBurst ==
  /\ InitWith({BigOf(MaxTotal)}, {0}, {2}, {1}, 0..MaxBurst, {1})
  /\ alpha = 1 /\ beta = 1 /\ clock_noise = 0

BurstSpec == InitBurst /\ [][Next]_vars

\* ============================================================ claims

\* C1: for max_threads >= 1 the sweep emits one record for each N of
\* 1..max_threads and no other, in increasing order of N from N = 1: the
\* p-th record is always the record of N = p, and at the end there are
\* max_threads records.
C1_RecordsInOrder ==
  maxN >= 1 =>
    /\ Len(records) <= maxN
    /\ \A p \in 1..Len(records) : records[p].N = p
    /\ mpc = "exit" => Len(records) = maxN

C1_Witness ==
  /\ mpc = "exit"
  /\ maxN = MaxThreads
  /\ Len(records) = MaxThreads
  /\ records[MaxThreads].N = MaxThreads

\* C2: the driver is invoked once with N = 1, before any record, and then once
\* for each N of 2..max_threads, never again for N = 1: the p-th invocation
\* is the one of N = p, the record of N is emitted after the invocation of N
\* and carries its time, so the record of N = 1 carries the baseline time t1.
C2_InvokedOncePerN ==
  /\ \A p \in 1..Len(calls) : calls[p].N = p
  /\ Len(records) <= Len(calls)
  /\ Len(calls) <= Len(records) + 1
  /\ \A p \in 1..Len(records) :
       /\ records[p].tN = calls[p].time
       /\ records[p].t1 = calls[1].time
  /\ Len(records) >= 1 => records[1].tN = t1
  /\ mpc = "exit" => Len(calls) = IF maxN >= 1 THEN maxN ELSE 1

C2_Witness ==
  /\ mpc = "exit"
  /\ maxN = MaxThreads
  /\ Len(calls) = MaxThreads
  /\ records[1].tN = t1 /\ t1 > 0
  /\ records[2].tN # t1

\* C3: under fair scheduling every invocation of the driver terminates,
\* whatever the interleaving and for every coherence_rounds, coherence_ops
\* and lock_iters (0 included): the sweep eventually has emitted its whole
\* table and the process has ended.
C3_SweepTerminates == <>(mpc = "exit" /\ Len(records) = maxN)

C3_Witness ==
  /\ mpc = "exit"
  /\ maxN = MaxThreads /\ Len(records) = MaxThreads
  /\ coh_rounds = MaxRounds /\ coh_ops = MaxOps /\ lock_iters = MaxLock
  /\ hot = MaxThreads * MaxRounds * MaxOps

\* worker v has arrived at the barrier for round rr
ArrivedFor(v, rr) ==
  \/ r[v] > rr
  \/ r[v] = rr /\ wpc[v] \in {"wait", "hot", "packed"}

RECURSIVE SumPacked(_)
SumPacked(c) == IF c < 0 THEN 0 ELSE packed[c] + SumPacked(c - 1)

\* C4: a worker is at an increment of round rr only when all N workers have
\* arrived at the barrier for round rr: each has finished its compute slice
\* and all its increments of the rounds before rr.
C4_Rendezvous ==
  \A w \in Workers :
    wpc[w] \in {"hot", "packed"} =>
      /\ \A v \in 1..N :
           /\ ArrivedFor(v, r[w])
           /\ wpc[v] \notin {"none", "work"} /\ ran[v] = per
      /\ hot >= N * r[w] * coh_ops
      /\ SumPacked(PackedSlots - 1) >= N * r[w] * coh_ops

C4_Witness ==
  /\ N = MaxThreads
  /\ \E w \in Workers : wpc[w] = "hot" /\ r[w] = 1
  /\ \E v \in Workers : wpc[v] = "wait" /\ r[v] = 1

\* C5: at most one worker is inside the critical section at any time, and
\* when the driver returns every worker has acquired and released the mutex
\* lock_iters times and the mutex is unlocked.
C5_MutualExclusion ==
  /\ Cardinality({w \in Workers : wpc[w] = "unlock"}) <= 1
  /\ \A w \in Workers : wpc[w] = "unlock" => m = w
  /\ mpc = "ret" =>
       /\ m = 0
       /\ \A w \in 1..N : acq[w] = lock_iters /\ rel[w] = lock_iters

C5_Witness ==
  /\ mpc = "ret"
  /\ N = MaxThreads /\ lock_iters = MaxLock
  /\ \A w \in 1..N : acq[w] = MaxLock

AllJoined == joined = N /\ \A w \in 1..N : wpc[w] = "done"

DriverOrder ==
  { << "Idle", "SerialPhase" >>, << "SerialPhase", "ParallelPhase" >>,
    << "ParallelPhase", "Joined" >>, << "Joined", "Done" >>,
    << "Done", "Idle" >> }

\* C6: an invocation passes through Idle, SerialPhase, ParallelPhase, Joined,
\* Done in that order (Done is left only for the Idle of the next invocation),
\* and the timer is read and the time returned only in Joined, when all N
\* workers have completed and are joined.
C6_DriverOrder ==
  [][ /\ DriverState' # DriverState =>
           << DriverState, DriverState' >> \in DriverOrder
      /\ DriverState' = "Joined" => AllJoined'
      /\ (calls' # calls /\ Len(calls') = Len(calls)) =>
           DriverState = "Joined" /\ AllJoined /\ DriverState' = "Done"
      /\ (t1' # t1 \/ (tN' # tN /\ mpc # "loop")) =>
           DriverState = "Joined" /\ AllJoined ]_vars

C6_Witness ==
  /\ DriverState = "Done"
  /\ Len(calls) = MaxThreads /\ calls[MaxThreads].time > 0
  /\ AllJoined /\ N = MaxThreads

\* the workers launched and not yet joined
Unjoined == {w \in Workers : wpc[w] # "none" /\ w > joined}

\* C7: no worker exists, so none takes a step, before the main thread has
\* finished the serial slice, and while a launched worker is not yet joined
\* the main thread is only launching or joining workers.
C7_NoOverlap ==
  /\ Unjoined # {} => mpc \in {"spawn", "join"}
  /\ mpc \in {"split", "timer", "serial"} =>
       \A w \in Workers : ~ENABLED WorkerStep(w)
  /\ mpc \in {"spawn", "join"} => sink1 = busy_work(serial_iters)

C7_Witness ==
  /\ mpc = "join"
  /\ Cardinality(Unjoined) = MaxThreads
  /\ \E w \in Workers : wpc[w] = "hot"
  /\ serial_iters # Zero /\ sink1 = serial_iters

\* floor(total_iters * s) in exact arithmetic, s = sn / SDen
ExactFloor(total, sn) == BigDivSmall(BigMulSmall(total, sn), SDen)

\* C8: for every total_iters, every s of [0, 1] and every N, serial_iters
\* (the floor of total_iters * s, hence at most total_iters) and
\* parallel_iters = total_iters - serial_iters add up to total_iters exactly,
\* without unsigned wrap-around, and serial_iters is the same in every
\* invocation of the sweep.
C8_SplitExact ==
  calls # << >> =>
    /\ BigLE(serial_iters, total_iters)
    /\ BigAdd(serial_iters, parallel_iters) = total_iters
    /\ \A p \in 1..Len(calls) : calls[p].serial = calls[1].serial

\* the first clause of C8 alone: serial_iters is floor(total_iters * s)
C8_SerialIsFloor ==
  calls # << >> => serial_iters = ExactFloor(total_iters, s)

RECURSIVE SumRan(_)
SumRan(n) == IF n = 0 THEN Zero ELSE BigAdd(ran[n], SumRan(n - 1))

\* C9: every worker runs per = floor(parallel_iters / N) compute iterations,
\* so that when all are joined the workers have run N * per iterations,
\* parallel_iters less a leftover below N that no worker runs.
C9_PerWorkerSlice ==
  /\ \A w \in Workers : ran[w] \in {Zero, per}
  /\ mpc = "ret" =>
       /\ \A w \in 1..N : ran[w] = per
       /\ SumRan(N) = BigMulSmall(per, N)
       /\ \E left \in 0..(N - 1) :
            BigAdd(SumRan(N), BigOf(left)) = parallel_iters

C9_Witness ==
  /\ mpc = "ret"
  /\ N = MaxThreads
  /\ per # Zero /\ ran[N] = per
  /\ BigModSmall(parallel_iters, N) # 0

\* C10: when an invocation starts to launch its workers the hot counter and
\* the 8 packed counters are 0, the mutex is unlocked, the barrier is an
\* N-party barrier without arrivals and no thread exists, whatever the
\* invocations before it did.
C10_FreshSharedState ==
  (mpc = "spawn" /\ i = 0) =>
    /\ hot = 0
    /\ \A c \in 0..(PackedSlots - 1) : packed[c] = 0
    /\ m = 0
    /\ sync_point = [parties |-> N, count |-> 0, phase |-> 0]
    /\ \A w \in Workers : wpc[w] = "none" /\ acq[w] = 0

C10_Witness ==
  /\ mpc = "spawn" /\ i = 0
  /\ Len(calls) = MaxThreads /\ N = MaxThreads
  /\ coh_rounds = MaxRounds /\ coh_ops = MaxOps /\ lock_iters = MaxLock
  /\ hot = 0 /\ sync_point.parties = MaxThreads
One == FromInt(1)

\* C11: with max_threads = 1 the sweep emits exactly one record, for N = 1,
\* and its measured speedup is exactly 1.0, the baseline time divided by
\* itself, whatever positive time the baseline run took.
C11_SingleThread ==
  maxN = 1 =>
    /\ Len(records) <= 1
    /\ mpc = "exit" => Len(records) = 1
    /\ \A p \in DOMAIN records :
         /\ records[p].N = 1
         /\ records[p].t1 > 0 /\ records[p].tN = records[p].t1
         /\ records[p].meas = One

C11_Witness ==
  /\ maxN = 1 /\ clock_noise > 0 /\ mpc = "exit"
  /\ Len(records) = 1 /\ Len(calls) = 1
  /\ records[1].meas = One /\ records[1].t1 = calls[1].time

\* C12: with s = 0, alpha = 0, beta = 0, max_threads = 4 and the injectors
\* off the sweep emits 4 records, N = 1..4, whose amdahl_speedup and
\* gunther_speedup both equal N; gunther(0, 0, N) equals N for every N >= 1.
C12_IdealCurves ==
  (s = 0 /\ alpha = 0 /\ beta = 0) =>
    /\ \A p \in DOMAIN records :
         /\ records[p].gunther = FromInt(records[p].N)
         /\ records[p].N <= 4 => records[p].amdahl = FromInt(records[p].N)
    /\ (maxN = 4 /\ mpc = "exit") =>
         /\ Len(records) = 4
         /\ \A p \in 1..4 : records[p].N = p

C12_Witness ==
  /\ s = 0 /\ alpha = 0 /\ beta = 0 /\ maxN = 4
  /\ coh_rounds = 0 /\ coh_ops = 0 /\ lock_iters = 0
  /\ mpc = "exit" /\ Len(records) = 4
  /\ records[3].amdahl = FromInt(3) /\ records[4].gunther = FromInt(4)

\* C13: both curves are exactly 1 at N = 1: amdahl(s, 1) = 1 for every s in
\* [0, 1] and gunther(alpha, beta, 1) = 1 for every alpha, beta >= 0.
C13_CurvesStartAtOne ==
  \A p \in DOMAIN records :
    records[p].N = 1 => records[p].amdahl = One /\ records[p].gunther = One

C13_Witness ==
  /\ s > 0 /\ s < SDen /\ alpha > 0 /\ beta > 0
  /\ Len(records) >= 1 /\ records[1].N = 1
  /\ records[1].amdahl = One /\ records[1].gunther = One

\* C14: for a fixed s in [0, 1] amdahl(s, N) is non-decreasing in N >= 1
\* and, when s > 0, never exceeds 1 / s.  (The rows change only in the step
\* to the head of the loop.)
C14_AmdahlMonotoneBounded ==
  mpc = "loop" =>
    /\ \A p, q \in DOMAIN records :
         p <= q => FLE(records[p].amdahl, records[q].amdahl)
    /\ s > 0 =>
         \A p \in DOMAIN records :
           FLE(records[p].amdahl, FDiv(One, Dyadic(s, SBits)))

C14_Witness ==
  /\ mpc = "loop" /\ s > 0 /\ s < SDen /\ Len(records) = MaxCurveN
  /\ ~FLE(records[MaxCurveN].amdahl, records[1].amdahl)
  /\ FLE(records[MaxCurveN].amdahl, FDiv(One, Dyadic(s, SBits)))
\* C15: within each worker the phases run in the order compute, all
\* coherence rounds, lock loop: a worker neither arrives at the barrier nor
\* increments a counter before its compute slice is finished, and does not
\* acquire the mutex before its last coherence round is finished.
C15_WorkerPhaseOrder ==
  \A w \in Workers :
    /\ (arr[w] > 0 \/ inc[w] > 0 \/ acq[w] > 0
          \/ wpc[w] \in {"arrive", "wait", "hot", "packed", "lock", "unlock"})
         => wpc[w] \notin {"none", "work"} /\ ran[w] = per
    /\ (acq[w] > 0 \/ wpc[w] \in {"lock", "unlock"})
         => arr[w] = coh_rounds /\ inc[w] = 2 * coh_rounds * coh_ops
    /\ (arr[w] < coh_rounds \/ inc[w] < 2 * coh_rounds * coh_ops)
         => acq[w] = 0 /\ rel[w] = 0

C15_Witness ==
  /\ N = MaxThreads /\ coh_rounds = MaxRounds /\ coh_ops = MaxOps
  /\ wpc[1] = "unlock" /\ acq[1] = 1 /\ arr[1] = MaxRounds
  /\ inc[1] = 2 * MaxRounds * MaxOps
  /\ wpc[2] = "packed" /\ acq[2] = 0

\* C16: one barrier serves all rounds of an invocation: each release is
\* triggered by exactly N arrivals, one from each of the N workers; an
\* invocation has exactly coherence_rounds releases and each worker arrives
\* exactly coherence_rounds times.
C16_BarrierReuse ==
  mpc \in {"spawn", "join", "ret"} =>
    /\ sync_point.parties = N
    /\ sync_point.phase <= coh_rounds
    /\ \A w \in 1..N : arr[w] \in {sync_point.phase, sync_point.phase + 1}
    /\ \A w \in 1..N : arr[w] <= coh_rounds
    /\ \A w \in Workers \ (1..N) : arr[w] = 0
    /\ sync_point.count
          = Cardinality({w \in 1..N : arr[w] = sync_point.phase + 1})
    /\ sync_point.count < N
    /\ mpc = "ret" =>
         /\ sync_point.phase = coh_rounds /\ sync_point.count = 0
         /\ \A w \in 1..N : arr[w] = coh_rounds

C16_Witness ==
  /\ mpc = "ret" /\ N = MaxThreads /\ coh_rounds = MaxRounds
  /\ sync_point.phase = MaxRounds
  /\ \A w \in 1..MaxThreads : arr[w] = MaxRounds

\* C17 as stated: the counters, the mutex and the barrier are read or
\* written only by the N workers of the invocation, never by the main
\* thread.
C17_OnlyWorkers == users \subseteq 1..N

\* C17, amended: the main thread constructs the counters, the mutex and the
\* barrier and stores 0 into the hot counter while no worker exists; from
\* then on they are read or written only by started, unfinished workers
\* 1..N of the invocation.
C17_WorkersAfterSetup ==
  [][(shared' # shared \/ users' # users) =>
       \/ /\ mpc = "setup"
          /\ users' = {0}
          /\ \A w \in Workers : wpc[w] \in {"none", "done"}
       \/ /\ mpc \in {"spawn", "join"}
          /\ \E w \in 1..N :
               /\ w <= i /\ wpc[w] \notin {"none", "work", "done"}
               /\ users' = users \cup {w}]_vars

C17_Witness ==
  /\ mpc = "ret" /\ N = MaxThreads
  /\ users = 0..MaxThreads
  /\ hot = MaxThreads * MaxRounds * MaxOps

\* C18: with coherence_rounds = 0 and lock_iters = 0 a worker performs only
\* its compute slice: nothing arrives at the barrier, no counter is
\* incremented, the mutex is never acquired, the counters stay 0, and the
\* invocations still complete.
ComputeOnly ==
  /\ \A w \in Workers :
       /\ arr[w] = 0 /\ inc[w] = 0 /\ acq[w] = 0 /\ rel[w] = 0
       /\ wpc[w] \in {"none", "work", "done"}
  /\ hot = 0 /\ \A c \in DOMAIN packed : packed[c] = 0
  /\ m = 0 /\ sync_point.count = 0 /\ sync_point.phase = 0
  /\ users \subseteq {0}

C18_ComputeOnly ==
  /\ []((coh_rounds = 0 /\ lock_iters = 0) => ComputeOnly)
  /\ <>((coh_rounds = 0 /\ lock_iters = 0) =>
          (mpc = "exit" /\ Len(records) = maxN /\ DriverState = "Done"))

C18_Witness ==
  /\ coh_rounds = 0 /\ lock_iters = 0 /\ coh_ops = MaxOps
  /\ maxN = MaxThreads /\ mpc = "exit" /\ Len(records) = MaxThreads
  /\ \A w \in 1..MaxThreads : wpc[w] = "done" /\ ran[w] = per
  /\ hot = 0

RECURSIVE SumInc(_)
SumInc(n) == IF n = 0 THEN 0 ELSE inc[n] + SumInc(n - 1)

\* C19: no increment is lost: when the workers are joined the hot counter
\* equals N * coherence_rounds * coherence_ops, slot j of the packed line
\* equals N * coherence_rounds * |{k in 0..coherence_ops-1 : k mod 8 = j}|,
\* and the packed slots sum to the hot counter.
C19_NoLostIncrement ==
  /\ mpc \in {"spawn", "join", "ret"} =>
       hot + SumPacked(PackedSlots - 1) = SumInc(N)
  /\ mpc = "ret" =>
       /\ hot = N * coh_rounds * coh_ops
       /\ \A j \in 0..(PackedSlots - 1) :
            packed[j] = N * coh_rounds
                          * Cardinality({kk \in 0..(coh_ops - 1) : kk % 8 = j})
       /\ SumPacked(PackedSlots - 1) = hot

C19_Witness ==
  /\ mpc = "ret" /\ N = 2 /\ coh_ops = MaxBurst /\ coh_rounds = 1
  /\ hot = 2 * MaxBurst
  /\ packed[0] = 4 /\ packed[PackedSlots - 1] = 2

\* C20: at every barrier release, for round r (counted from 0), the hot
\* counter equals N * r * coherence_ops exactly, and no two workers are ever
\* incrementing in different rounds.
C20_RoundsInLockstep ==
  [][/\ sync_point'.phase > sync_point.phase =>
          /\ hot = N * sync_point.phase * coh_ops
          /\ SumPacked(PackedSlots - 1) = N * sync_point.phase * coh_ops
     /\ \A w, v \in Workers :
          (wpc'[w] \in {"hot", "packed"} /\ wpc'[v] \in {"hot", "packed"})
            => r'[w] = r'[v]]_vars

C20_Witness ==
  /\ N = MaxThreads /\ coh_rounds = MaxRounds /\ coh_ops = MaxOps
  /\ sync_point.phase = MaxRounds /\ sync_point.count = 0
  /\ hot = MaxThreads * (MaxRounds - 1) * MaxOps
  /\ \A w \in 1..MaxThreads : wpc[w] = "wait"
====
